---- MODULE Spec2Model ----
(***************************************************************************)
(* Model of pyuppaal/iTools/ufactory.py: the element constructors          *)
(* (location, transition, template) and the monitor synthesizers           *)
(* (monitor, strict_monitor, monitor_allpatterns).                         *)
(*                                                                         *)
(* A Python str is a sequence of one-character strings, so that            *)
(* str.replace, str(int) and '+' are computed and not assumed.  Python     *)
(* None is the one-element sequence <<"None">>, which is no sequence of    *)
(* characters.  An ET.Element is a record [tag, attrib, text, children];   *)
(* attrib is the dict in insertion order, a sequence of <<key, value>>.    *)
(* Python indices are 0-based: At(s, i) is s[i].                           *)
(*                                                                         *)
(* The class is named UFactory, while its methods call each other through  *)
(* the module global UppaalFactory (the name the class docstring uses).     *)
(* The file does not bind that name: the variable UppaalFactory is the     *)
(* module global, either bound to this class by the importing code or      *)
(* unbound, and then the first use raises NameError.                       *)
(***************************************************************************)
EXTENDS Integers, Sequences, FiniteSets, TLC

\* ------------------------------------------------------------------ bounds
MaxLen == 2
MaxBase == 1
MaxAlpha == 2
MaxElems == 1

\* -------------------------------------------------------------- the state
\* the binding of the module global UppaalFactory
VARIABLE UppaalFactory

\* ------------------------------------------------------- Python built-ins
None == <<"None">>

At(s, i) == s[i + 1]

Digit(d) ==
    CASE d = 0 -> "0" [] d = 1 -> "1" [] d = 2 -> "2" [] d = 3 -> "3"
      [] d = 4 -> "4" [] d = 5 -> "5" [] d = 6 -> "6" [] d = 7 -> "7"
      [] d = 8 -> "8" [] d = 9 -> "9"

RECURSIVE NatToStr(_)
NatToStr(n) ==
    IF n < 10 THEN <<Digit(n)>>
    ELSE NatToStr(n \div 10) \o <<Digit(n % 10)>>

\* str(n) for an int n
str(n) == IF n < 0 THEN <<"-">> \o NatToStr(0 - n) ELSE NatToStr(n)

\* s.replace(old, new): leftmost non-overlapping occurrences, old non-empty
RECURSIVE Replace(_, _, _)
Replace(s, old, new) ==
    IF Len(s) < Len(old) THEN s
    ELSE IF SubSeq(s, 1, Len(old)) = old
         THEN new \o Replace(SubSeq(s, Len(old) + 1, Len(s)), old, new)
         ELSE <<s[1]>> \o Replace(Tail(s), old, new)

\* f'id{n}'
IdStr(n) == <<"i", "d">> \o str(n)

\* ------------------------------------------------------------ ET.Element
Element(tag, attrib) ==
    [tag |-> tag, attrib |-> attrib, text |-> None, children |-> <<>>]

TextElement(tag, attrib, text) ==
    [tag |-> tag, attrib |-> attrib, text |-> text, children |-> <<>>]

WithChildren(elem, children) ==
    [elem EXCEPT !.children = children]

\* ------------------------------------------------------ UFactory.location
location(location_id, pos_x, pos_y, inv, name, is_committed) ==
    WithChildren(
        Element("location", << <<"id", IdStr(location_id)>>,
                               <<"x", str(pos_x)>>,
                               <<"y", str(pos_y)>> >>),
        (IF name # None
         THEN <<TextElement("name", << <<"x", str(pos_x)>>,
                                       <<"y", str(pos_y - 20)>> >>, name)>>
         ELSE <<>>)
        \o
        (IF inv # None
         THEN <<TextElement("label",
                            << <<"kind", <<"i","n","v","a","r","i","a","n","t">> >>,
                               <<"x", str(pos_x)>>,
                               <<"y", str(pos_y - 40)>> >>, inv)>>
         ELSE <<>>)
        \o
        (IF is_committed THEN <<Element("committed", <<>>)>> ELSE <<>>))

\* ---------------------------------------------------- UFactory.transition
transition(sourceID, targetID, pos_x, pos_y, guard, sync, clock_reset) ==
    WithChildren(
        Element("transition", <<>>),
        <<Element("source", << <<"ref", IdStr(sourceID)>> >>),
          Element("target", << <<"ref", IdStr(targetID)>> >>)>>
        \o
        (IF guard # None
         THEN <<TextElement("label",
                            << <<"kind", <<"g","u","a","r","d">> >>,
                               <<"x", str(pos_x)>>,
                               <<"y", str(pos_y)>> >>, guard)>>
         ELSE <<>>)
        \o
        (IF sync # None
         THEN <<TextElement("label",
                            << <<"kind", <<"s","y","n","c","h","r","o","n",
                                           "i","s","a","t","i","o","n">> >>,
                               <<"x", str(pos_x)>>,
                               <<"y", str(pos_y - 30)>> >>, sync)>>
         ELSE <<>>)
        \o
        (IF clock_reset # None
         THEN <<TextElement("label",
                            << <<"kind", <<"a","s","s","i","g","n","m","e","n","t">> >>,
                               <<"x", str(pos_x)>>,
                               <<"y", str(pos_y - 60)>> >>, clock_reset)>>
         ELSE <<>>))

\* ------------------------------------------------------ UFactory.template
template(name, locations, init_id, transitions, parameter, declaration) ==
    WithChildren(
        Element("template", <<>>),
        <<TextElement("name", <<>>, name)>>
        \o
        (IF parameter # None
         THEN <<TextElement("parameter", <<>>, parameter)>>
         ELSE <<>>)
        \o
        (IF declaration # None
         THEN <<TextElement("declaration", <<>>, parameter)>>
         ELSE <<>>)
        \o locations
        \o <<Element("init", << <<"ref", IdStr(init_id)>> >>)>>
        \o transitions)

\* ------------------------------------------------- outcome of a call
NoElement == Element("", <<>>)

Returned(elem) == [raised |-> "", elem |-> elem]

Raised(exc) == [raised |-> exc, elem |-> NoElement]

\* the module global UppaalFactory when no statement of the module binds it
Unbound == "unbound"

\* -------------------------------------------------------- UFactory.monitor
\* signals[i] = <<signal, guard, inv>>
MainLocation(signals, init_id, i) ==
    location(init_id + i, 300 * i, 200, At(signals, i)[3], None, FALSE)

\* mutant: the tail reuses the id of the last main location
TailLocation_OffByOne(signals, init_id) ==
    location(init_id + Len(signals) - 1, 300 * Len(signals), 200, None,
             <<"p", "a", "s", "s">>, FALSE)

TailLocation(signals, init_id) ==
    location(init_id + Len(signals), 300 * Len(signals), 200, None,
             <<"p", "a", "s", "s">>, FALSE)

MainLocations(signals, init_id) ==
    [p \in 1..Len(signals) |-> MainLocation(signals, init_id, p - 1)]
    \o <<TailLocation(signals, init_id)>>

\* mutant: guard and signal passed in each other's place
MainTransition_Swapped(signals, init_id, i) ==
    transition(init_id + i, init_id + i + 1, i * 300 + 100, 200,
               At(signals, i)[1], At(signals, i)[2], None)

MainTransition(signals, init_id, i) ==
    transition(init_id + i, init_id + i + 1, i * 300 + 100, 200,
               At(signals, i)[2], At(signals, i)[1], None)

MainTransitions(signals, init_id) ==
    [p \in 1..Len(signals) |-> MainTransition(signals, init_id, p - 1)]

\* mutant: the traps start at the tail's id
fail_location_id_NoSkip(signals, init_id, i) == init_id + Len(signals) + i

\* mutant: one id too many is skipped after the tail
fail_location_id_SkipTwo(signals, init_id, i) == init_id + Len(signals) + i + 2

fail_location_id(signals, init_id, i) == init_id + Len(signals) + i + 1

\* mutant: the invariant is copied without tightening
FailInv_Unchanged(signals, i) == At(signals, i)[3]

\* signals[i][2].replace('<=', '<'); the caller has checked it is a str
FailInv(signals, i) ==
    Replace(At(signals, i)[3], <<"<", "=">>, <<"<">>)

\* mutant: the guard of the current observation instead of the previous one
FailGuard_Current(signals, i) ==
    IF i = 0 THEN None
    ELSE Replace(At(signals, i)[2], <<">", "=">>, <<">">>)

\* None for i = 0, else signals[i - 1][1].replace('>=', '>')
FailGuard(signals, i) ==
    IF i = 0 THEN None
    ELSE Replace(At(signals, i - 1)[2], <<">", "=">>, <<">">>)

FailLocation(signals, init_id, i) ==
    location(fail_location_id(signals, init_id, i), 300 * i, 0 - 200,
             FailInv(signals, i), <<"f", "a", "i", "l">> \o str(i), FALSE)

FailTransition(signals, init_id, i) ==
    transition(init_id + i, fail_location_id(signals, init_id, i),
               i * 300 + 100, 0 - 100, FailGuard(signals, i),
               At(signals, i)[1], None)

\* None has no attribute 'replace'
FailRaises(signals, i) ==
    \/ At(signals, i)[3] = None
    \/ i > 0 /\ At(signals, i - 1)[2] = None

\* the loop "for i in range(len(signals))" of the strict branch, from i on
RECURSIVE StrictLoop(_, _, _, _, _)
StrictLoop(signals, init_id, i, locations, transitions) ==
    IF i >= Len(signals)
    THEN [raised |-> "", locations |-> locations, transitions |-> transitions]
    ELSE IF FailRaises(signals, i)
    THEN [raised |-> "AttributeError", locations |-> locations,
          transitions |-> transitions]
    ELSE StrictLoop(signals, init_id, i + 1,
                    Append(locations, FailLocation(signals, init_id, i)),
                    Append(transitions, FailTransition(signals, init_id, i)))

monitor(monitor_name, signals, init_id, strict) ==
    IF UppaalFactory = Unbound THEN Raised("NameError") ELSE
    LET locations == MainLocations(signals, init_id)
        transitions == MainTransitions(signals, init_id)
        loop == IF strict
                THEN StrictLoop(signals, init_id, 0, locations, transitions)
                ELSE [raised |-> "", locations |-> locations,
                      transitions |-> transitions]
    IN IF loop.raised # ""
       THEN Raised(loop.raised)
       ELSE Returned(template(monitor_name, loop.locations, init_id,
                              loop.transitions, None, None))

strict_monitor(monitor_name, signals, init_id) ==
    monitor(monitor_name, signals, init_id, TRUE)

\* -------------------------------------------- UFactory.monitor_allpatterns
\* edge_signal_dict is the dict in insertion order: a sequence of <<key, value>>
Values(edge_signal_dict) ==
    [p \in 1..Len(edge_signal_dict) |-> edge_signal_dict[p][2]]

\* signals[i][0] != value.replace('!', '?')
Unexpected(signals, i, value) ==
    At(signals, i)[1] # Replace(value, <<"!">>, <<"?">>)

\* mutant: rows of len(edge_signal_dict) ids instead of len - 1
IllegalLocationId_FullRow(signals, init_id, edge_signal_dict, i, j) ==
    init_id + Len(signals) + 1 + i * Len(edge_signal_dict) + j

IllegalLocationId(signals, init_id, edge_signal_dict, i, j) ==
    init_id + Len(signals) + 1 + i * (Len(edge_signal_dict) - 1) + j

\* mutant: the target computed with rows of len(edge_signal_dict) ids
IllegalTransitionTarget_FullRow(signals, init_id, edge_signal_dict, i, j) ==
    init_id + Len(signals) + 1 + i * Len(edge_signal_dict) + j

IllegalTransitionTarget(signals, init_id, edge_signal_dict, i, j) ==
    init_id + Len(signals) + 1 + i * (Len(edge_signal_dict) - 1) + j

\* inner loop over edge_signal_dict.values() from the v-th value on, counter j
RECURSIVE IllegalLocationsAt(_, _, _, _, _, _)
IllegalLocationsAt(signals, init_id, edge_signal_dict, i, v, j) ==
    IF v >= Len(edge_signal_dict) THEN <<>>
    ELSE IF Unexpected(signals, i, At(Values(edge_signal_dict), v))
    THEN <<location(IllegalLocationId(signals, init_id, edge_signal_dict, i, j),
                    300 * i, 500 + 100 * j, None, None, FALSE)>>
         \o IllegalLocationsAt(signals, init_id, edge_signal_dict, i, v + 1, j + 1)
    ELSE IllegalLocationsAt(signals, init_id, edge_signal_dict, i, v + 1, j)

RECURSIVE IllegalLocations(_, _, _, _)
IllegalLocations(signals, init_id, edge_signal_dict, i) ==
    IF i >= Len(signals) THEN <<>>
    ELSE IllegalLocationsAt(signals, init_id, edge_signal_dict, i, 0, 0)
         \o IllegalLocations(signals, init_id, edge_signal_dict, i + 1)

RECURSIVE IllegalTransitionsAt(_, _, _, _, _, _)
IllegalTransitionsAt(signals, init_id, edge_signal_dict, i, v, j) ==
    IF v >= Len(edge_signal_dict) THEN <<>>
    ELSE IF Unexpected(signals, i, At(Values(edge_signal_dict), v))
    THEN <<transition(init_id + i,
                      IllegalTransitionTarget(signals, init_id, edge_signal_dict, i, j),
                      i * 300 + 100, 200, None,
                      Replace(At(Values(edge_signal_dict), v), <<"!">>, <<"?">>),
                      None)>>
         \o IllegalTransitionsAt(signals, init_id, edge_signal_dict, i, v + 1, j + 1)
    ELSE IllegalTransitionsAt(signals, init_id, edge_signal_dict, i, v + 1, j)

RECURSIVE IllegalTransitions(_, _, _, _)
IllegalTransitions(signals, init_id, edge_signal_dict, i) ==
    IF i >= Len(signals) THEN <<>>
    ELSE IllegalTransitionsAt(signals, init_id, edge_signal_dict, i, 0, 0)
         \o IllegalTransitions(signals, init_id, edge_signal_dict, i + 1)

PatternLocation(signals, init_id, i) ==
    location(init_id + i, 300 * i, 200, None, None, FALSE)

PatternTransition(signals, init_id, i) ==
    transition(init_id + i, init_id + i + 1, i * 300 + 100, 200,
               None, At(signals, i)[1], None)

monitor_allpatterns(monitor_name, signals, init_id, edge_signal_dict) ==
    IF UppaalFactory = Unbound THEN Raised("NameError") ELSE
    LET locations ==
            [p \in 1..Len(signals) |-> PatternLocation(signals, init_id, p - 1)]
            \o <<TailLocation(signals, init_id)>>
            \o IllegalLocations(signals, init_id, edge_signal_dict, 0)
        transitions ==
            [p \in 1..Len(signals) |-> PatternTransition(signals, init_id, p - 1)]
            \o IllegalTransitions(signals, init_id, edge_signal_dict, 0)
    IN Returned(template(monitor_name, locations, init_id, transitions,
                         None, None))

\* ------------------------------------------------------------ the inputs
SeqsUpTo(S, n) == UNION {[1..k -> S] : k \in 0..n}

\* a constraint such as gclk>=10: variable, comparator, threshold
Constraint(var, op, threshold) == var \o op \o str(threshold)

SignalNames == {<<"a", "?">>, <<"b", "?">>, None}

Guards ==
    {None} \cup {Constraint(<<"t">>, op, 5) : op \in {<<">", "=">>, <<">">>}}

Invs == {None, Constraint(<<"t">>, <<"<", "=">>, 10)}

Observations == SignalNames \X Guards \X Invs

SignalLists == SeqsUpTo(Observations, MaxLen)

\* monitor_allpatterns reads only signals[i][0]
PatternObservations ==
    {o \in Observations :
        \/ o[2] = None /\ o[3] = None
        \/ o[2] = Constraint(<<"t">>, <<">", "=">>, 5)
           /\ o[3] = Constraint(<<"t">>, <<"<", "=">>, 10)}

PatternSignalLists == SeqsUpTo(PatternObservations, MaxLen)

InitIds == {9 * b : b \in 0..MaxBase}

AlphabetValues == {<<"a", "!">>, <<"b", "!">>, <<"c", "!">>}

\* a dict with the keys e0, e1, ... in insertion order
DictOf(values) ==
    [p \in 1..Len(values) |-> <<(<<"e">> \o str(p - 1)), values[p]>>]

EdgeSignalDicts == {DictOf(vs) : vs \in SeqsUpTo(AlphabetValues, MaxAlpha)}

LocationElems ==
    {location(0, 0, 0, None, None, FALSE),
     location(1, 300, 200, <<"t", "<", "1">>, <<"l">>, TRUE)}

TransitionElems ==
    {transition(0, 1, 100, 200, None, None, None),
     transition(1, 0, 100, 200, <<"t", ">", "1">>, <<"a", "?">>,
                <<"t", "=", "0">>)}

Parameters == {None, <<"i", "n", "t", " ", "p">>}

Declarations == {None, <<"c", "l", "o", "c", "k", " ", "t", ";">>}

\* pc: "call" before the call, "done" after it; fn: the method called; then
\* its arguments; result: what the call returned or raised.
VARIABLES pc, fn, name, signals, init_id, strict, edge_signal_dict,
          locations, transitions, parameter, declaration, result

args == <<fn, name, signals, init_id, strict, edge_signal_dict,
          locations, transitions, parameter, declaration, UppaalFactory>>

vars == <<pc, fn, name, signals, init_id, strict, edge_signal_dict,
          locations, transitions, parameter, declaration, result,
          UppaalFactory>>

InitMonitor ==
    /\ fn = "monitor"
    /\ name = <<"M">>
    /\ signals \in SignalLists
    /\ init_id \in InitIds
    /\ strict \in BOOLEAN
    /\ edge_signal_dict = <<>>
    /\ locations = <<>> /\ transitions = <<>>
    /\ parameter = None /\ declaration = None

InitStrictMonitor ==
    /\ fn = "strict_monitor"
    /\ name = <<"M">>
    /\ signals \in SignalLists
    /\ init_id \in InitIds
    /\ strict = TRUE
    /\ edge_signal_dict = <<>>
    /\ locations = <<>> /\ transitions = <<>>
    /\ parameter = None /\ declaration = None

InitMonitorAllPatterns ==
    /\ fn = "monitor_allpatterns"
    /\ name = <<"M">>
    /\ signals \in PatternSignalLists
    /\ init_id \in InitIds
    /\ strict = FALSE
    /\ edge_signal_dict \in EdgeSignalDicts
    /\ locations = <<>> /\ transitions = <<>>
    /\ parameter = None /\ declaration = None

InitTemplate ==
    /\ fn = "template"
    /\ name = <<"T">>
    /\ signals = <<>>
    /\ init_id \in InitIds
    /\ strict = FALSE
    /\ edge_signal_dict = <<>>
    /\ locations \in SeqsUpTo(LocationElems, MaxElems)
    /\ transitions \in SeqsUpTo(TransitionElems, MaxElems)
    /\ parameter \in Parameters
    /\ declaration \in Declarations

Init ==
    /\ pc = "call"
    /\ result = Returned(NoElement)
    /\ UppaalFactory \in {"UFactory", Unbound}
    /\ \/ InitMonitor
       \/ InitStrictMonitor
       \/ InitMonitorAllPatterns
       \/ InitTemplate

CallMonitor ==
    /\ pc = "call" /\ fn = "monitor"
    /\ result' = monitor(name, signals, init_id, strict)
    /\ pc' = "done"
    /\ UNCHANGED args

CallStrictMonitor ==
    /\ pc = "call" /\ fn = "strict_monitor"
    /\ result' = strict_monitor(name, signals, init_id)
    /\ pc' = "done"
    /\ UNCHANGED args

CallMonitorAllPatterns ==
    /\ pc = "call" /\ fn = "monitor_allpatterns"
    /\ result' = monitor_allpatterns(name, signals, init_id, edge_signal_dict)
    /\ pc' = "done"
    /\ UNCHANGED args

CallTemplate ==
    /\ pc = "call" /\ fn = "template"
    /\ result' = Returned(template(name, locations, init_id, transitions,
                                   parameter, declaration))
    /\ pc' = "done"
    /\ UNCHANGED args

Next ==
    \/ CallMonitor
    \/ CallStrictMonitor
    \/ CallMonitorAllPatterns
    \/ CallTemplate

Spec == Init /\ [][Next]_vars

\* ------------------------------------------------ reading a result back
n == Len(signals)

base == init_id

Elem == result.elem

ChildrenOf(e, tag) == SelectSeq(e.children, LAMBDA c : c.tag = tag)

Locs == ChildrenOf(Elem, "location")

Trans == ChildrenOf(Elem, "transition")

Attr(e, key) ==
    LET p == CHOOSE q \in 1..Len(e.attrib) : e.attrib[q][1] = key
    IN e.attrib[p][2]

LocId(l) == Attr(l, "id")

Source(t) == Attr(ChildrenOf(t, "source")[1], "ref")

Target(t) == Attr(ChildrenOf(t, "target")[1], "ref")

InitRef == Attr(ChildrenOf(Elem, "init")[1], "ref")

KindOf(word) ==
    CASE word = "invariant" -> <<"i","n","v","a","r","i","a","n","t">>
      [] word = "guard" -> <<"g","u","a","r","d">>
      [] word = "synchronisation" ->
            <<"s","y","n","c","h","r","o","n","i","s","a","t","i","o","n">>

LabelsOf(e, kind) ==
    SelectSeq(e.children,
              LAMBDA c : c.tag = "label" /\ Attr(c, "kind") = KindOf(kind))

\* the text of the label of that kind, None when the label is omitted
LabelText(e, kind) ==
    IF LabelsOf(e, kind) = <<>> THEN None ELSE LabelsOf(e, kind)[1].text

NameOf(l) ==
    IF ChildrenOf(l, "name") = <<>> THEN None ELSE ChildrenOf(l, "name")[1].text

LocIds == {LocId(Locs[p]) : p \in 1..Len(Locs)}

MainIds == {IdStr(base + i) : i \in 0..n}

\* decimal reading of an id attribute "id<N>", N >= 0
DigitVal(c) ==
    CASE c = "0" -> 0 [] c = "1" -> 1 [] c = "2" -> 2 [] c = "3" -> 3
      [] c = "4" -> 4 [] c = "5" -> 5 [] c = "6" -> 6 [] c = "7" -> 7
      [] c = "8" -> 8 [] c = "9" -> 9

RECURSIVE ParseNat(_)
ParseNat(ds) ==
    IF Len(ds) = 1 THEN DigitVal(ds[1])
    ELSE 10 * ParseNat(SubSeq(ds, 1, Len(ds) - 1)) + DigitVal(ds[Len(ds)])

IdNum(a) == ParseNat(SubSeq(a, 3, Len(a)))

LocWithId(k) ==
    Locs[CHOOSE p \in 1..Len(Locs) : LocId(Locs[p]) = IdStr(k)]

OutOf(k) == {p \in 1..Len(Trans) : Source(Trans[p]) = IdStr(k)}

ReturnedBy(f) == pc = "done" /\ fn = f /\ result.raised = ""

PlainChain == ReturnedBy("monitor") /\ ~strict

StrictChain ==
    \/ ReturnedBy("strict_monitor")
    \/ ReturnedBy("monitor") /\ strict

AllPatterns == ReturnedBy("monitor_allpatterns")

\* --------------------------------------------------------------- claims

\* C1: the plain chain (monitor, strict=False) over n signals returns a
\* template with exactly n+1 locations and n transitions whose location ids
\* are exactly base, base+1, ..., base+n.
C1_PlainChainShape ==
    PlainChain =>
        /\ Len(Locs) = n + 1
        /\ Len(Trans) = n
        /\ LocIds = MainIds
        /\ {IdNum(a) : a \in LocIds} = base..(base + n)

C1_Witness ==
    /\ PlainChain
    /\ n = 2
    /\ base = 9
    /\ LocIds = {IdStr(9), IdStr(10), IdStr(11)}

\* C2: in the plain chain the i-th transition goes from base+i to base+i+1
\* with guard S[i].guard and synchronisation S[i].signal (an absent one gives
\* no label); the walk along the transitions starts at base, ends at base+n
\* and visits every location exactly once.
C2_PlainChainPath ==
    PlainChain =>
        /\ \A i \in 0..(n - 1) :
              /\ Source(At(Trans, i)) = IdStr(base + i)
              /\ Target(At(Trans, i)) = IdStr(base + i + 1)
              /\ LabelText(At(Trans, i), "guard") = At(signals, i)[2]
              /\ LabelText(At(Trans, i), "synchronisation") = At(signals, i)[1]
              /\ i > 0 => Source(At(Trans, i)) = Target(At(Trans, i - 1))
        /\ n >= 1 =>
              LET walk == <<Source(Trans[1])>>
                          \o [p \in 1..n |-> Target(Trans[p])]
              IN /\ walk[1] = IdStr(base)
                 /\ walk[n + 1] = IdStr(base + n)
                 /\ \A l \in 1..Len(Locs) :
                       Cardinality({q \in 1..Len(walk) :
                                       walk[q] = LocId(Locs[l])}) = 1
                 /\ \A q \in 1..Len(walk) : walk[q] \in LocIds

C2_Witness ==
    /\ PlainChain
    /\ n = 2
    /\ At(signals, 0)[2] # None
    /\ At(signals, 0)[2] # At(signals, 1)[2]
    /\ At(signals, 0)[1] # None
    /\ At(signals, 0)[1] # At(signals, 1)[1]
    /\ Target(At(Trans, 1)) = IdStr(base + 2)

\* C3: within one call of monitor, strict_monitor or monitor_allpatterns no
\* two locations of the returned template have the same id.
C3_NoIdCollision ==
    (PlainChain \/ StrictChain \/ AllPatterns) =>
        Cardinality(LocIds) = Len(Locs)

\* C4: in every returned template every transition's source and target is
\* the id of a location of that template, and the init reference is the
\* caller's starting id, the smallest location id of the template.
C4_RefsAndInit ==
    (PlainChain \/ StrictChain \/ AllPatterns) =>
        /\ \A p \in 1..Len(Trans) :
              Source(Trans[p]) \in LocIds /\ Target(Trans[p]) \in LocIds
        /\ InitRef = IdStr(init_id)
        /\ InitRef \in LocIds
        /\ \A a \in LocIds : IdNum(InitRef) <= IdNum(a)

C4_Witness ==
    /\ AllPatterns
    /\ n = 2
    /\ Len(edge_signal_dict) = 2
    /\ Len(Locs) > n + 1
    /\ Len(Trans) > n
    /\ base = 9

\* a trap of the strict chain is a location named fail<i>
IsFail(l) ==
    /\ NameOf(l) # None
    /\ Len(NameOf(l)) > 4
    /\ SubSeq(NameOf(l), 1, 4) = <<"f", "a", "i", "l">>

FailIds == {LocId(Locs[p]) : p \in {q \in 1..Len(Locs) : IsFail(Locs[q])}}

Thresholds == 0..20

LE == <<"<", "=">>

LT == <<"<">>

GE == <<">", "=">>

GT == <<">">>

\* C5: in the strict chain over n >= 1 signals every main location base+i,
\* i < n, is the source of exactly two transitions, one to base+i+1 and one to
\* its trap base+n+1+i (named fail<i>), the tail base+n is the source of none,
\* and the trap ids are disjoint from the main ids base..base+n.
C5_StrictChainShape ==
    (StrictChain /\ n >= 1) =>
        /\ \A i \in 0..(n - 1) :
              /\ Cardinality(OutOf(base + i)) = 2
              /\ {Target(Trans[p]) : p \in OutOf(base + i)}
                    = {IdStr(base + i + 1), IdStr(base + n + 1 + i)}
              /\ IdStr(base + n + 1 + i) \in FailIds
              /\ NameOf(LocWithId(base + n + 1 + i))
                    = <<"f", "a", "i", "l">> \o str(i)
        /\ OutOf(base + n) = {}
        /\ FailIds \cap MainIds = {}
        /\ Cardinality(FailIds) = n

C5_Witness ==
    /\ ReturnedBy("strict_monitor")
    /\ n = 2
    /\ base = 9
    /\ FailIds = {IdStr(12), IdStr(13)}
    /\ Cardinality(OutOf(10)) = 2

\* C6: in the strict chain, when S[i].invariant is v<=c the trap fail<i>
\* (id base+n+1+i) carries the invariant v<c with the same threshold c, and
\* the main location base+i keeps S[i].invariant unchanged.
C6_TrapInvariantTightened ==
    StrictChain =>
        \A i \in 0..(n - 1) : \A c \in Thresholds :
            At(signals, i)[3] = Constraint(<<"t">>, LE, c) =>
                /\ LabelText(LocWithId(base + n + 1 + i), "invariant")
                      = Constraint(<<"t">>, LT, c)
                /\ LabelText(LocWithId(base + i), "invariant")
                      = At(signals, i)[3]

C6_Witness ==
    /\ StrictChain
    /\ n = 2
    /\ At(signals, 1)[3] = Constraint(<<"t">>, LE, 10)
    /\ LabelText(LocWithId(base + n + 2), "invariant")
          = <<"t", "<", "1", "0">>

\* C7: in the strict chain the transition from main location i to its trap
\* fail<i> has synchronisation S[i].signal; it has no guard for i = 0, and for
\* i > 0 its guard is S[i-1].guard with ">=" replaced by ">" (v>=c gives v>c,
\* a guard without ">=" stays as it is).
C7_TrapTransition ==
    StrictChain =>
        \A i \in 0..(n - 1) :
            LET traps == {p \in OutOf(base + i) :
                             Target(Trans[p]) = IdStr(base + n + 1 + i)}
            IN /\ Cardinality(traps) = 1
               /\ \A p \in traps :
                     /\ LabelText(Trans[p], "synchronisation")
                           = At(signals, i)[1]
                     /\ i = 0 => LabelText(Trans[p], "guard") = None
                     /\ i > 0 => \A c \in Thresholds :
                           /\ At(signals, i - 1)[2] = Constraint(<<"t">>, GE, c)
                                 => LabelText(Trans[p], "guard")
                                       = Constraint(<<"t">>, GT, c)
                           /\ At(signals, i - 1)[2] = Constraint(<<"t">>, GT, c)
                                 => LabelText(Trans[p], "guard")
                                       = Constraint(<<"t">>, GT, c)

C7_Witness ==
    /\ StrictChain
    /\ n = 2
    /\ At(signals, 0)[2] = Constraint(<<"t">>, GE, 5)
    /\ At(signals, 1)[2] = Constraint(<<"t">>, GT, 5)
    /\ At(signals, 0)[1] # At(signals, 1)[1]
    /\ \E p \in OutOf(base + 1) :
          /\ Target(Trans[p]) = IdStr(base + n + 2)
          /\ LabelText(Trans[p], "guard") = <<"t", ">", "5">>

\* an alphabet value with its marker normalised to "?"
Normal(value) == <<value[1], "?">>

k == Len(edge_signal_dict)

\* how many alphabet entries the chain signal i equals after normalisation
Matches(i) ==
    Cardinality({p \in 1..k :
                    Normal(edge_signal_dict[p][2]) = At(signals, i)[1]})

\* the normalised alphabet values other than the chain signal i, in order
NonMatching(i) ==
    SelectSeq([p \in 1..k |-> Normal(edge_signal_dict[p][2])],
              LAMBDA v : v # At(signals, i)[1])

TrapLocs == SubSeq(Locs, n + 2, Len(Locs))

TrapTrans == SubSeq(Trans, n + 1, Len(Trans))

C8_Conclusion ==
    /\ Len(TrapLocs) = n * (k - 1)
    /\ Len(TrapTrans) = n * (k - 1)
    /\ \A i \in 0..(n - 1) : \A j \in 0..(k - 2) :
          /\ LocId(At(TrapLocs, i * (k - 1) + j))
                = IdStr(base + n + 1 + i * (k - 1) + j)
          /\ Source(At(TrapTrans, i * (k - 1) + j)) = IdStr(base + i)
          /\ Target(At(TrapTrans, i * (k - 1) + j))
                = IdStr(base + n + 1 + i * (k - 1) + j)
          /\ LabelText(At(TrapTrans, i * (k - 1) + j), "synchronisation")
                = At(NonMatching(i), j)
    /\ Cardinality({LocId(TrapLocs[p]) : p \in 1..Len(TrapLocs)})
          = Len(TrapLocs)
    /\ {LocId(TrapLocs[p]) : p \in 1..Len(TrapLocs)} \cap MainIds = {}

\* C8 as stated: for monitor_allpatterns with an alphabet of k entries in
\* which no chain signal is absent, there are exactly n*(k-1) traps, the trap
\* for (location i, j-th non-matching entry) has id base+n+1+i*(k-1)+j, and
\* the trap ids are pairwise distinct and disjoint from base..base+n.
C8_Original ==
    (AllPatterns /\ \A i \in 0..(n - 1) : Matches(i) >= 1) => C8_Conclusion

\* C8 amended: the same for an alphabet in which every chain signal equals
\* exactly one normalised alphabet value.
C8_TrapGrid ==
    (AllPatterns /\ \A i \in 0..(n - 1) : Matches(i) = 1) =>
        (C8_Conclusion /\ Len(Locs) = n + 1 + n * (k - 1))

C8_Witness ==
    /\ AllPatterns
    /\ n = 2
    /\ k = 2
    /\ \A i \in 0..(n - 1) : Matches(i) = 1
    /\ At(signals, 0)[1] # At(signals, 1)[1]
    /\ base = 9
    /\ LocId(TrapLocs[2]) = IdStr(13)

\* C9: template(...) returns a node whose children are, in this order: name;
\* parameter iff supplied, with the supplied text; declaration iff supplied,
\* with the supplied declaration text; the locations in list order; the init
\* reference id<init_id>; the transitions in list order.
C9_TemplateChildren ==
    ReturnedBy("template") =>
        Elem.children =
            <<TextElement("name", <<>>, name)>>
            \o (IF parameter # None
                THEN <<TextElement("parameter", <<>>, parameter)>> ELSE <<>>)
            \o (IF declaration # None
                THEN <<TextElement("declaration", <<>>, declaration)>>
                ELSE <<>>)
            \o locations
            \o <<Element("init", << <<"ref", <<"i", "d">> \o str(init_id)>> >>)>>
            \o transitions

\* C10: strict_monitor accepts observations whose guard or invariant is None:
\* the call completes without error and the template omits the corresponding
\* guard and invariant labels.
C10_StrictAcceptsNone ==
    (pc = "done" /\ fn = "strict_monitor" /\ UppaalFactory # Unbound) =>
        /\ result.raised = ""
        /\ \A i \in 0..(n - 1) :
              /\ At(signals, i)[2] = None
                    => LabelText(At(Trans, i), "guard") = None
              /\ At(signals, i)[3] = None
                    => /\ LabelText(At(Locs, i), "invariant") = None
                       /\ LabelText(At(Locs, n + 1 + i), "invariant") = None

\* the location ids of a template
LocIdsOf(e) ==
    {LocId(ChildrenOf(e, "location")[p]) :
        p \in 1..Len(ChildrenOf(e, "location"))}

\* how many ids above base one call may use, by the inputs of the call
IdSpan ==
    CASE fn = "monitor" /\ ~strict -> n
      [] fn = "monitor" /\ strict -> 2 * n
      [] fn = "strict_monitor" -> 2 * n
      [] fn = "monitor_allpatterns" -> n * k

\* the same call started right after the id range of this one
NextCall ==
    CASE fn = "monitor" -> monitor(name, signals, base + IdSpan + 1, strict)
      [] fn = "strict_monitor" ->
            strict_monitor(name, signals, base + IdSpan + 1)
      [] fn = "monitor_allpatterns" ->
            monitor_allpatterns(name, signals, base + IdSpan + 1,
                                edge_signal_dict)

\* C11: every location id of the returned template lies in base..base+n for
\* the plain chain, in base..base+2n for the strict chain and in
\* base..base+n*k for monitor_allpatterns with k >= 1 alphabet entries of
\* which every chain signal equals at least one after normalisation; a next
\* call started at base plus that bound plus 1 shares no id with the template.
C11_IdRangeBounded ==
    ( \/ PlainChain
      \/ StrictChain
      \/ AllPatterns /\ k >= 1 /\ \A i \in 0..(n - 1) : Matches(i) >= 1 ) =>
        /\ \A a \in LocIds :
              base <= IdNum(a) /\ IdNum(a) <= base + IdSpan
        /\ NextCall.raised = ""
        /\ LocIdsOf(NextCall.elem) \cap LocIds = {}

C11_Witness ==
    /\ AllPatterns
    /\ n = 2
    /\ k = 2
    /\ \A i \in 0..(n - 1) : Matches(i) >= 1
    /\ base = 9
    /\ IdStr(base + n * k) \in LocIds
    /\ IdStr(base + n * k + 1) \in LocIdsOf(NextCall.elem)

====
